---- MODULE Spec2Model ----
(***************************************************************************)
(* Model of src/src/MapViewDirections.tsx: the MapDirections component.    *)
(*                                                                         *)
(* The component keeps three pieces of React state (coordinates, distance, *)
(* duration).  An effect runs after every render in which one of its       *)
(* dependencies changed; when its guard passes it calls                    *)
(* fetchAndRenderRoute, which chunks the waypoints into routes, formats    *)
(* one request per route, calls onStart, dispatches one fetchRoute per     *)
(* route and joins them with Promise.all.                                  *)
(*                                                                         *)
(* JavaScript runs every handler to completion, so each action below is    *)
(* one whole handler: a render with its effect, or the settlement of one   *)
(* fetchRoute promise together with the promise reactions it triggers.     *)
(* What a handler did, and in which order, is kept in the run's trace.     *)
(***************************************************************************)
EXTENDS Integers, Sequences, FiniteSets, TLC

VARIABLES
    mounted,      \* has the first render (and its effect) happened
    props,        \* the props of the latest render
    coordinates,  \* React state: <<>> is null, <<path>> is a path
    distance,     \* React state, only ever reset to null
    duration,     \* React state, only ever reset to null
    runs,         \* one record per call of fetchAndRenderRoute, oldest first
    decoder,      \* one call of decode, step by step (Null: none)
    fetcher       \* one call of fetchRoute and its settlement (Null: none)

vars == <<mounted, props, coordinates, distance, duration, runs,
          decoder, fetcher>>

(***************************************************************************)
(* Constants and bounds                                                    *)
(***************************************************************************)
WAYPOINT_LIMIT == 10

\* Number of calls of fetchAndRenderRoute in one behaviour.
MaxRuns == 2

\* Longest waypoint list given to the chunker on its own (SpecChunk).
MaxWaypoints == 31

\* Largest number of chunks of a run whose fetches settle (SpecJoin).
MaxChunks == 3

\* Largest number of alternative routes in a response (SpecFetch).
MaxAlternatives == 2

\* Longest string of free characters given to decode (SpecDecode).
MaxLen == 3

\* Longest point sequence encoded and given to decode (SpecDecode).
MaxPoints == 2

\* null / undefined for the React state
Null == <<>>
Some(v) == <<v>>

(***************************************************************************)
(* Values                                                                  *)
(***************************************************************************)
Marker(lat, lng) == [latitude |-> lat, longitude |-> lng]

\* JavaScript truthiness of a numeric property: absent and 0 are falsy.
TruthyNum(obj, f) == f \in DOMAIN obj /\ obj[f] # 0

\* JavaScript truthiness of a string property: absent and '' are falsy.
TruthyStr(obj, f) == f \in DOMAIN obj /\ obj[f] # ""

\* The waypoint list of length n used as input: n distinct markers.
WaypointList(n) == [j \in 1..n |-> Marker(j, 100 + j)]

RECURSIVE Concat(_)
Concat(seqs) ==
    IF seqs = <<>> THEN <<>> ELSE Head(seqs) \o Concat(Tail(seqs))

RECURSIVE SumSeq(_)
SumSeq(ints) == IF ints = <<>> THEN 0 ELSE Head(ints) + SumSeq(Tail(ints))

RECURSIVE SumOver(_, _)
SumOver(seq, f) ==
    IF seq = <<>> THEN 0 ELSE seq[1][f] + SumOver(Tail(seq), f)

\* Element i of a JavaScript array (0-based) held as a sequence (1-based).
At(arr, i) == arr[i + 1]

(***************************************************************************)
(* decode: 32-bit integer operations of JavaScript                         *)
(***************************************************************************)
\* Bit i (0..31) of the two's complement form of the int32 x.
Bit(x, i) ==
    IF i = 31
    THEN IF x < 0 THEN 1 ELSE 0
    ELSE LET u == IF x < 0 THEN (x + 2147483647) + 1 ELSE x
         IN  (u \div (2^i)) % 2

\* The weight of bit i in the two's complement form of an int32.
Weight(i) == IF i = 31 THEN (-2147483647) - 1 ELSE 2^i

\* x | y, from bit i upwards
RECURSIVE OrFrom(_, _, _)
OrFrom(x, y, i) ==
    IF i > 31
    THEN 0
    ELSE (IF Bit(x, i) = 1 \/ Bit(y, i) = 1 THEN Weight(i) ELSE 0)
             + OrFrom(x, y, i + 1)

\* x | y (each operand is evaluated once, then combined bit by bit)
BitOr32(x, y) ==
    CHOOSE r \in {OrFrom(a, b, 0) : a \in {x}, b \in {y}} : TRUE

\* x << s, from bit i upwards: bit i of the result is bit i - s of x.
RECURSIVE ShiftFrom(_, _, _)
ShiftFrom(x, s, i) ==
    IF i > 31
    THEN 0
    ELSE Bit(x, i - s) * Weight(i) + ShiftFrom(x, s, i + 1)

\* x << n: the shift count is taken modulo 32, bits shifted out are lost.
ShiftLeft32(x, n) ==
    CHOOSE r \in {ShiftFrom(a, s, s) : a \in {x}, s \in {n % 32}} : TRUE

\* x >> 1 (arithmetic)
ShiftRight1(x) == (x - (x % 2)) \div 2

\* ~x
BitNot(x) == (-x) - 1

(***************************************************************************)
(* decode                                                                  *)
(***************************************************************************)
\* A string is held as the sequence of its characters.  The characters with
\* the codes 63..126, in code order; the grave accent (code 96), which has no
\* string literal here, is held as a token of its own.
Grave == "GRAVE"

Alphabet ==
    <<"?", "@", "A", "B", "C", "D", "E", "F", "G", "H", "I", "J", "K", "L",
      "M", "N", "O", "P", "Q", "R", "S", "T", "U", "V", "W", "X", "Y", "Z",
      "[", "\\", "]", "^", "_", Grave, "a", "b", "c", "d", "e", "f", "g", "h",
      "i", "j", "k", "l", "m", "n", "o", "p", "q", "r", "s", "t", "u", "v",
      "w", "x", "y", "z", "{", "|", "}", "~">>

\* A character below the alphabet, the space (code 32), and one above it,
\* the delete character (code 127), held as a token.
Space == " "
Del == "DEL"

\* c.charCodeAt(0)
CharCodeAt(c) ==
    IF c = Space THEN 32
    ELSE IF c = Del THEN 127
    ELSE 62 + (CHOOSE i \in 1..Len(Alphabet) : Alphabet[i] = c)

\* lat / 1E5: the double nearest to the fraction n / 100000.
Div1E5(n) == [num |-> n, den |-> 100000]

\* Mutant: a zigzag value is taken as unsigned.
ZigZagUnsigned(result) == ShiftRight1(result)

\* ((result & 1) != 0 ? ~(result >> 1) : (result >> 1))
ZigZag(result) ==
    IF result % 2 # 0 THEN BitNot(ShiftRight1(result)) ELSE ShiftRight1(result)

\* Mutant: the running totals lat and lng are carried over to the next
\* record.
RECURSIVE EnterRecordKeepsTotals(_, _)
EnterRecordKeepsTotals(d, k) ==
    IF k > Len(d.t)
    THEN [d EXCEPT !.pc = "done"]
    ELSE IF Len(d.t[k].polyline.points) = 0
    THEN EnterRecordKeepsTotals(d, k + 1)
    ELSE [d EXCEPT !.step = k, !.index = 0,
                   !.shift = 0, !.result = 0, !.pc = "lat"]

\* for (let step of t) { let encoded = step.polyline.points; ...: the first
\* record from position k on whose string is not empty enters the while
\* loop; "done" when there is none.
RECURSIVE EnterRecord(_, _)
EnterRecord(d, k) ==
    IF k > Len(d.t)
    THEN [d EXCEPT !.pc = "done"]
    ELSE IF Len(d.t[k].polyline.points) = 0
    THEN EnterRecord(d, k + 1)
    ELSE [d EXCEPT !.step = k, !.index = 0, !.lat = 0, !.lng = 0,
                   !.shift = 0, !.result = 0, !.pc = "lat"]

\* The call decode(t), at its first read.
DecoderStart(t) ==
    EnterRecord([t |-> t, step |-> 0, index |-> 0, lat |-> 0, lng |-> 0,
                 shift |-> 0, result |-> 0, pc |-> "done", points |-> <<>>],
                1)

\* b = encoded.charAt(index).charCodeAt(0) - 63: past the end of the string
\* charAt gives '' and charCodeAt NaN, held as Null.
ChunkAt(encoded, index) ==
    IF index >= Len(encoded)
    THEN Null
    ELSE Some(CharCodeAt(At(encoded, index)) - 63)

\* b & 0x1f: NaN reads as 0; the low five bits of a negative b are those of
\* its two's complement form.
LowBits(b) == IF b = Null THEN 0 ELSE b[1] % 32

\* Mutant: the loop goes on when bit 0x20 of b is set.
ContinuesOnBit(b) == b # Null /\ Bit(b[1], 5) = 1

\* while (b >= 0x20): false for NaN.
Continues(b) == b # Null /\ b[1] >= 32

\* The body of a do-while loop: b = encoded.charAt(index++).charCodeAt(0) - 63;
\* result |= (b & 0x1f) << shift; shift += 5;
ReadChunk(d) ==
    LET b == ChunkAt(d.t[d.step].polyline.points, d.index)
    IN  [d EXCEPT !.index = @ + 1, !.shift = @ + 5,
                  !.result = BitOr32(@, ShiftLeft32(LowBits(b), d.shift))]

\* After the first loop: let dlat = ...; lat += dlat; shift = 0; result = 0;
EndLatitude(d) ==
    [d EXCEPT !.lat = @ + ZigZag(d.result), !.shift = 0, !.result = 0,
              !.pc = "lng"]

\* After the second loop: let dlng = ...; lng += dlng;
\* points.push({ latitude: (lat / 1E5), longitude: (lng / 1E5) });
EndLongitude(d) ==
    LET lng == d.lng + ZigZag(d.result)
    IN  [d EXCEPT !.lng = lng, !.shift = 0, !.result = 0, !.pc = "lat",
                  !.points = Append(@, [latitude  |-> Div1E5(d.lat),
                                        longitude |-> Div1E5(lng)])]

\* while (index < len): the next point of the record, or the next record.
NextPoint(d) ==
    IF d.index < Len(d.t[d.step].polyline.points)
    THEN d
    ELSE EnterRecord(d, d.step + 1)

\* One pass through the body of a do-while loop, and what follows it until
\* the next pass; while (b >= 0x20) is decided on the chunk just read.
DecodeChar(d) ==
    LET b == ChunkAt(d.t[d.step].polyline.points, d.index)
    IN  CHOOSE next \in
            {IF Continues(b) THEN read
             ELSE IF d.pc = "lat" THEN EndLatitude(read)
             ELSE NextPoint(EndLongitude(read)) : read \in {ReadChunk(d)}} :
            TRUE

\* decode(t): the points returned.
RECURSIVE RunDecoder(_)
RunDecoder(d) == IF d.pc = "done" THEN d.points ELSE RunDecoder(DecodeChar(d))

Decode(t) == RunDecoder(DecoderStart(t))

(***************************************************************************)
(* fetchAndRenderRoute, part 1: chunking the waypoints into routes         *)
(***************************************************************************)
HasWaypoints(p) == "waypoints" \in DOMAIN p

\* Mutant: the chunk number is taken from the 1-based position.
NumChunkOffByOne(index) == (index + 1) \div WAYPOINT_LIMIT

\* Mutant: chunks of one waypoint more than the limit.
NumChunkWide(index) == index \div (WAYPOINT_LIMIT + 1)

\* const numChunk = Math.floor(index / WAYPOINT_LIMIT);
NumChunk(index) == index \div WAYPOINT_LIMIT

\* One step of the reduce callback:
\*   accumulator[numChunk] = [].concat((accumulator[numChunk] || []), waypoint)
ChunkStep(accumulator, waypoint, index) ==
    LET numChunk == NumChunk(index)
    IN  IF numChunk < Len(accumulator)
        THEN [accumulator EXCEPT ![numChunk + 1] = @ \o <<waypoint>>]
        ELSE Append(accumulator, <<waypoint>>)

\* waypoints.reduce(callback, []), from index on with the accumulator so far.
RECURSIVE ChunkReduce(_, _, _)
ChunkReduce(waypoints, index, accumulator) ==
    IF index >= Len(waypoints)
    THEN accumulator
    ELSE ChunkReduce(waypoints, index + 1,
                     ChunkStep(accumulator, At(waypoints, index), index))

ChunckedWaypoints(waypoints) == ChunkReduce(waypoints, 0, <<>>)

\* Mutant: a later route starts at the first waypoint of the previous chunk.
RouteOriginFirstOfPrevious(chuncked, i, origin) ==
    IF i = 0 THEN origin ELSE At(At(chuncked, i - 1), 0)

\* origin: (i === 0) ? origin : chunckedWaypoints[i - 1][chunckedWaypoints[i - 1].length - 1]
RouteOrigin(chuncked, i, origin) ==
    IF i = 0
    THEN origin
    ELSE At(At(chuncked, i - 1), Len(At(chuncked, i - 1)) - 1)

\* destination: (i === chunckedWaypoints.length - 1) ? destination : chunckedWaypoints[i + 1][0]
RouteDestination(chuncked, i, destination) ==
    IF i = Len(chuncked) - 1
    THEN destination
    ELSE At(At(chuncked, i + 1), 0)

\* if (splitWaypoints && waypoints && waypoints.length > WAYPOINT_LIMIT)
ShouldSplit(p) ==
    /\ p.splitWaypoints
    /\ HasWaypoints(p)
    /\ Len(p.waypoints) > WAYPOINT_LIMIT

\* The routes array filled by fetchAndRenderRoute.
Routes(p) ==
    IF ShouldSplit(p)
    THEN LET chuncked == ChunckedWaypoints(p.waypoints)
         IN  [k \in 1..Len(chuncked) |->
                [waypoints   |-> chuncked[k],
                 origin      |-> RouteOrigin(chuncked, k - 1, p.origin),
                 destination |-> RouteDestination(chuncked, k - 1, p.destination)]]
    ELSE <<[waypoints   |-> IF HasWaypoints(p) THEN p.waypoints ELSE <<>>,
            origin      |-> p.origin,
            destination |-> p.destination]>>

(***************************************************************************)
(* fetchAndRenderRoute, part 2: the request strings of one route           *)
(***************************************************************************)
\* `${m.latitude},${m.longitude}`
CoordString(m) == ToString(m.latitude) \o "," \o ToString(m.longitude)

\* String(x) of a plain object
ObjectString == "[object Object]"

MarkerComplete(m) == TruthyNum(m, "latitude") /\ TruthyNum(m, "longitude")

\* Array.prototype.join over strings
RECURSIVE Join(_, _)
Join(strs, sep) ==
    IF strs = <<>> THEN ""
    ELSE IF Len(strs) = 1 THEN strs[1]
    ELSE strs[1] \o sep \o Join(Tail(strs), sep)

OriginString(route) ==
    IF MarkerComplete(route.origin) THEN CoordString(route.origin) ELSE ""

DestinationString(route) ==
    IF MarkerComplete(route.destination) THEN CoordString(route.destination) ELSE ""

\* waypoints.map(w => (w.latitude && w.longitude) ? `${lat},${lng}` : w).join('|')
\* (join turns a marker that was left as an object into its String())
PlainWaypointsString(waypoints) ==
    Join([j \in 1..Len(waypoints) |->
            IF MarkerComplete(waypoints[j])
            THEN CoordString(waypoints[j])
            ELSE ObjectString], "|")

\* `optimize:true|${waypoints}`: the template converts the array of markers
\* itself, i.e. String(waypoints) = the markers' String() joined with ','.
OptimizedWaypointsString(waypoints) ==
    "optimize:true|" \o Join([j \in 1..Len(waypoints) |-> ObjectString], ",")

WaypointsString(route, optimizeWaypoints) ==
    IF optimizeWaypoints
    THEN OptimizedWaypointsString(route.waypoints)
    ELSE PlainWaypointsString(route.waypoints)

\* The three strings handed to fetchRoute (and, for index 0, to onStart).
Request(route, p) ==
    [origin      |-> OriginString(route),
     destination |-> DestinationString(route),
     waypoints   |-> WaypointsString(route, p.optimizeWaypoints)]

(***************************************************************************)
(* fetchAndRenderRoute, part 3: the callback of routes.map                 *)
(***************************************************************************)
OnStartEvent(req) ==
    [type |-> "onStart", origin |-> req.origin,
     destination |-> req.destination, waypoints |-> req.waypoints]

FetchEvent(index, req) ==
    [type |-> "fetch", index |-> index, origin |-> req.origin,
     destination |-> req.destination, waypoints |-> req.waypoints]

\* Mutant: onStart is called after the fetch of route 0 was dispatched.
MapCallbackFetchFirst(route, index, p) ==
    LET req == Request(route, p)
    IN  <<FetchEvent(index, req)>>
        \o (IF index = 0 THEN <<OnStartEvent(req)>> ELSE <<>>)

\* What the callback does for routes[index], in order: onStart for index 0
\* only, then the call of fetchRoute.
MapCallback(route, index, p) ==
    LET req == Request(route, p)
    IN  (IF index = 0 THEN <<OnStartEvent(req)>> ELSE <<>>)
        \o <<FetchEvent(index, req)>>

\* routes.map(callback): the callbacks run in index order.
MapEvents(routes, p) ==
    Concat([k \in 1..Len(routes) |-> MapCallback(routes[k], k - 1, p)])

(***************************************************************************)
(* Promises                                                                *)
(***************************************************************************)
Pending == [state |-> "pending"]
Resolved(v) == [state |-> "resolved", value |-> v]
Rejected(e) == [state |-> "rejected", reason |-> e]

(***************************************************************************)
(* fetchRoute: from the provider's response to the settled promise         *)
(***************************************************************************)
\* `${v}` of a rejection reason: undefined (Null) reads "undefined".
TemplateString(v) == IF v = Null THEN "undefined" ELSE v[1]

\* What fetch() rejects with when the request does not get through, and
\* what response.json() rejects with on a body that is not JSON, as the
\* template literal prints them (the wording is the engine's).
NetworkException == "TypeError: Network request failed"
JsonException == "SyntaxError: JSON Parse error: Unexpected token: <"

\* What route.legs throws when route is undefined (the wording is the
\* engine's).
UndefinedRouteException == "TypeError: Cannot read property 'legs' of undefined"

\* const errorMessage = json.error_message || json.status || 'Unknown error';
ErrorMessage(json) ==
    IF TruthyStr(json, "error_message") THEN json.error_message
    ELSE IF TruthyStr(json, "status") THEN json.status
    ELSE "Unknown error"

\* legs.reduce((carry, curr) => carry + curr.distance.value, 0) / 1000
\* The provider's distances in this model are whole kilometres, on which the
\* division is exact.
LegsDistance(legs) ==
    SumSeq([k \in 1..Len(legs) |-> legs[k].distance.value]) \div 1000

\* legs.reduce((carry, curr) => carry + (curr.duration_in_traffic ?
\*     curr.duration_in_traffic.value : curr.duration.value), 0) / 60
\* The provider's durations in this model are whole minutes.
LegsDuration(legs) ==
    SumSeq([k \in 1..Len(legs) |->
              IF "duration_in_traffic" \in DOMAIN legs[k]
              THEN legs[k].duration_in_traffic.value
              ELSE legs[k].duration.value]) \div 60

\* (precision === 'low') ? decode([{ polyline: route.overview_polyline }])
\*     : route.legs.reduce((carry, curr) => [...carry, ...decode(curr.steps)], [])
RouteCoordinates(route, precision) ==
    IF precision = "low"
    THEN Decode(<<[polyline |-> route.overview_polyline]>>)
    ELSE Concat([k \in 1..Len(route.legs) |-> Decode(route.legs[k].steps)])

\* An optional property of the response read into a result: undefined is Null.
Optional(obj, f) == IF f \in DOMAIN obj THEN Some(obj[f]) ELSE Null

\* The record pushed for json.routes[i] inside the filterRoute branch.
FilterRecord(route, precision) ==
    [distance      |-> LegsDistance(route.legs),
     duration      |-> LegsDuration(route.legs),
     coordinates   |-> RouteCoordinates(route, precision),
     fare          |-> Optional(route, "fare"),
     waypointOrder |-> route.waypoint_order,
     legs          |-> route.legs]

\* The value of Promise.resolve({...}) for the route chosen.
RouteResult(route, precision) ==
    [distance      |-> LegsDistance(route.legs),
     duration      |-> LegsDuration(route.legs),
     coordinates   |-> RouteCoordinates(route, precision),
     fare          |-> Optional(route, "fare"),
     legs          |-> route.legs,
     waypointOrder |-> route.waypoint_order]

\* The arguments of the calls of filterRoute: none without the prop, else one
\* call with the records of all routes in the order of json.routes.
FilterCalls(json, filterRoute, precision) ==
    IF filterRoute = Null
    THEN <<>>
    ELSE <<[k \in 1..Len(json.routes) |->
              FilterRecord(json.routes[k], precision)]>>

\* Mutant: the value filterRoute returns is dropped.
SelectedRouteFirst(json, filterRoute) == 0

\* let route = json.routes[0]; if (filterRoute) { ...
\*     let selectedRoute = filterRoute(routes); route = json.routes[selectedRoute] }
\* filterRoute is held as the index it returns.
SelectedRoute(json, filterRoute) ==
    IF filterRoute = Null THEN 0 ELSE filterRoute[1]

\* } else { return Promise.reject(); }: rejected without a reason.
NoRoutes == Rejected(Null)

\* .then(json => {...}): how the handler settles its promise; an exception
\* thrown in it rejects the promise with the exception.
JsonHandler(json, filterRoute, precision) ==
    IF ("status" \notin DOMAIN json) \/ json.status # "OK"
    THEN Rejected(Some(ErrorMessage(json)))
    ELSE IF Len(json.routes) # 0
    THEN LET selectedRoute == SelectedRoute(json, filterRoute)
         IN  IF selectedRoute < Len(json.routes)
             THEN Resolved(RouteResult(At(json.routes, selectedRoute),
                                       precision))
             ELSE Rejected(Some(UndefinedRouteException))
    ELSE NoRoutes

\* .catch(err => Promise.reject(`Error on GMAPS route request: ${err}`))
WrapRejection(outcome) ==
    IF outcome.state = "rejected"
    THEN Rejected("Error on GMAPS route request: "
                      \o TemplateString(outcome.reason))
    ELSE outcome

\* fetchRoute(...): the promise it returns, settled, and the calls of
\* filterRoute made on the way.  A response is a transport failure or a
\* JSON document.
FetchRoute(response, filterRoute, precision) ==
    LET json == response.json
        reachesFilter == /\ response.kind = "json"
                         /\ "status" \in DOMAIN json
                         /\ json.status = "OK"
                         /\ Len(json.routes) # 0
        inner == IF response.kind = "network"
                 THEN Rejected(Some(NetworkException))
                 ELSE IF response.kind = "nonjson"
                 THEN Rejected(Some(JsonException))
                 ELSE JsonHandler(json, filterRoute, precision)
    IN  [inner       |-> inner,
         outcome     |-> WrapRejection(inner),
         filterCalls |-> IF reachesFilter
                         THEN FilterCalls(json, filterRoute, precision)
                         ELSE <<>>]

(***************************************************************************)
(* fetchAndRenderRoute, part 4: how the promise of a route can settle      *)
(***************************************************************************)
\* The stops of a route, in travel order.
Stops(route) == <<route.origin>> \o route.waypoints \o <<route.destination>>

\* The value fetchRoute resolves with for a route.  The provider's answer is
\* an input; here it has one leg per pair of consecutive stops, each of
\* length 1 and duration 2 (only their sums reach the result), a path from
\* the route's origin to its destination, the waypoints in the given order,
\* and a fare or none (fare is optional in the response: undefined is Null).
SegmentResult(route, fare) ==
    LET nlegs == Len(Stops(route)) - 1
    IN  [distance      |-> nlegs,
         duration      |-> 2 * nlegs,
         coordinates   |-> <<route.origin, route.destination>>,
         fare          |-> fare,
         legs          |-> <<[start_location |-> route.origin,
                              end_location   |-> route.destination,
                              count          |-> nlegs]>>,
         waypointOrder |-> [k \in 1..Len(route.waypoints) |-> k - 1]]

Fares(route) == {Null, Some([value |-> 3 * Len(Stops(route))])}

\* The responses on which the fetchRoute of a route fails in the runs with
\* several routes: the request does not get through, or the provider finds
\* no route.
FailingResponses ==
    {[kind |-> "network"],
     [kind |-> "json", json |-> [status |-> "OK", routes |-> <<>>]]}

\* The reason the promise of routes[index] rejects with on a response:
\* fetchRoute(...).then(result => result).catch(errorMessage =>
\* Promise.reject(errorMessage)) hands on the reason of fetchRoute, which is
\* given the request strings and not the index.
RouteRejection(index, response) == FetchRoute(response, Null, "low").outcome.reason

\* The ways the promise of routes[index] can settle, given the fares the
\* provider may quote.
FetchOutcomes(route, index, fares) ==
    {Resolved(SegmentResult(route, f)) : f \in fares}
        \cup {Rejected(RouteRejection(index, r)) : r \in FailingResponses}

(***************************************************************************)
(* fetchAndRenderRoute, part 5: Promise.all and its then / catch           *)
(***************************************************************************)
\* One step of the reduce that combines the results.
AggregateStep(acc, r) ==
    [coordinates   |-> acc.coordinates \o r.coordinates,
     distance      |-> acc.distance + r.distance,
     duration      |-> acc.duration + r.duration,
     fares         |-> Append(acc.fares, r.fare),
     legs          |-> r.legs,
     waypointOrder |-> Append(acc.waypointOrder, r.waypointOrder)]

RECURSIVE AggregateFrom(_, _)
AggregateFrom(acc, results) ==
    IF results = <<>> THEN acc
    ELSE AggregateFrom(AggregateStep(acc, Head(results)), Tail(results))

\* results.reduce(step, {coordinates: [], distance: 0, ...})
Aggregate(results) ==
    AggregateFrom([coordinates |-> <<>>, distance |-> 0, duration |-> 0,
                   fares |-> <<>>, legs |-> <<>>, waypointOrder |-> <<>>],
                  results)

\* Mutant: the values are collected in the order the promises settled.
PromiseAllCompletionOrder(run, index) ==
    IF At(run.fetches, index).state = "rejected"
    THEN [state |-> "rejected", reason |-> At(run.fetches, index).reason]
    ELSE IF \A k \in 1..Len(run.fetches) : run.fetches[k].state = "resolved"
    THEN [state |-> "fulfilled",
          values |-> [k \in 1..Len(run.order) |->
                        At(run.fetches, run.order[k]).value]]
    ELSE [state |-> "pending"]

\* Mutant: the join waits until every promise has settled and then reports
\* the rejection of the lowest index (Promise.allSettled and a scan).
PromiseAllSettled(run, index) ==
    LET failed == {k \in 1..Len(run.fetches) : run.fetches[k].state = "rejected"}
    IN  IF \E k \in 1..Len(run.fetches) : run.fetches[k].state = "pending"
        THEN [state |-> "pending"]
        ELSE IF failed # {}
        THEN [state |-> "rejected",
              reason |-> run.fetches[CHOOSE k \in failed :
                                        \A j \in failed : k <= j].reason]
        ELSE [state |-> "fulfilled",
              values |-> [k \in 1..Len(run.fetches) |-> run.fetches[k].value]]

\* Promise.all when the promise of routes[index] has just settled (run
\* already holds its outcome and its place in the order of settlement) and
\* Promise.all has not settled before: it rejects with the reason of the
\* first rejection, fulfils with the values in index order once every
\* promise is resolved, and else stays pending.
PromiseAll(run, index) ==
    IF At(run.fetches, index).state = "rejected"
    THEN [state |-> "rejected", reason |-> At(run.fetches, index).reason]
    ELSE IF \A k \in 1..Len(run.fetches) : run.fetches[k].state = "resolved"
    THEN [state |-> "fulfilled",
          values |-> [k \in 1..Len(run.fetches) |-> run.fetches[k].value]]
    ELSE [state |-> "pending"]

\* resetState()
ResetState(st) ==
    [st EXCEPT !.coordinates = Null, !.distance = Null, !.duration = Null]

\* What onReady throws when it raises.
OnReadyException == "Error: onReady raised"

\* .then(results => {...}): combine, setCoordinates, onReady.  An exception
\* of onReady leaves the handler and rejects the promise then() returned.
ThenHandler(results, st, onReadyRaises) ==
    LET result == Aggregate(results)
    IN  [events |-> <<[type |-> "setCoordinates", value |-> result.coordinates],
                      [type |-> "onReady", result |-> result]>>,
         st     |-> [st EXCEPT !.coordinates = Some(result.coordinates)],
         thrown |-> IF onReadyRaises THEN Some(OnReadyException) ELSE Null]

\* Mutant: the catch handler resets the state and reports nothing.
CatchHandlerSilent(errorMessage, st) ==
    [events |-> <<[type |-> "resetState"]>>,
     st     |-> ResetState(st),
     thrown |-> Null]

\* Mutant: the catch handler reports the error and leaves the state alone.
CatchHandlerNoReset(errorMessage, st) ==
    [events |-> <<[type |-> "onError", error |-> errorMessage]>>,
     st     |-> st,
     thrown |-> Null]

\* .catch(errorMessage => {...}): resetState, console.warn, onError.
CatchHandler(errorMessage, st) ==
    [events |-> <<[type |-> "resetState"],
                  [type |-> "onError", error |-> errorMessage]>>,
     st     |-> ResetState(st),
     thrown |-> Null]

\* The reactions run once Promise.all has settled as join: then() runs on
\* fulfilment; catch() runs on rejection of Promise.all and also on an
\* exception thrown inside the then() handler, since it is chained after it.
Reactions(join, st, onReadyRaises) ==
    IF join.state = "fulfilled"
    THEN LET t == ThenHandler(join.values, st, onReadyRaises)
         IN  IF t.thrown # Null
             THEN LET c == CatchHandler(t.thrown[1], t.st)
                  IN  [c EXCEPT !.events = t.events \o c.events]
             ELSE t
    ELSE IF join.state = "rejected"
    THEN CatchHandler(join.reason, st)
    ELSE [events |-> <<>>, st |-> st, thrown |-> Null]

(***************************************************************************)
(* The effect and the run it starts                                        *)
(***************************************************************************)
\* Mutant: the guard forgets origin.longitude.
EffectGuardNoLongitude(p) ==
    /\ TruthyNum(p.origin, "latitude")
    /\ TruthyNum(p.destination, "latitude")
    /\ TruthyNum(p.destination, "longitude")
    /\ TruthyStr(p, "apikey")

\* if (origin.latitude && origin.longitude && destination.latitude &&
\*     destination.longitude && apikey)
EffectGuard(p) ==
    /\ TruthyNum(p.origin, "latitude")
    /\ TruthyNum(p.origin, "longitude")
    /\ TruthyNum(p.destination, "latitude")
    /\ TruthyNum(p.destination, "longitude")
    /\ TruthyStr(p, "apikey")

\* The two early returns of fetchAndRenderRoute:
\*   if (!apikey) return;   if (!origin || !destination) return;
\* origin and destination are objects in every render of this model.
FetchGuard(p) ==
    /\ TruthyStr(p, "apikey")
    /\ "origin" \in DOMAIN p
    /\ "destination" \in DOMAIN p

\* The record of one call of fetchAndRenderRoute that got past its guards,
\* right after the synchronous part: routes built, onStart called, one
\* fetchRoute per route in flight, Promise.all pending.
NewRun(p) ==
    LET routes == Routes(p)
    IN  [props   |-> p,
         routes  |-> routes,
         trace   |-> MapEvents(routes, p),
         fetches |-> [k \in 1..Len(routes) |-> Pending],
         order   |-> <<>>,
         join    |-> "pending"]

\* The effect body, given the props of the render it belongs to.
Effect(p) ==
    IF EffectGuard(p) /\ FetchGuard(p)
    THEN runs' = Append(runs, NewRun(p))
    ELSE runs' = runs

(***************************************************************************)
(* The encoded polyline format: the encoder of the provider's side, which  *)
(* decode is measured against                                              *)
(***************************************************************************)
\* Points in units of 1e-5 degrees, within the range of coordinates.
SamplePoints ==
    {[lat |-> lat, lng |-> lng] :
        lat \in {-9000000, -1, 3850000}, lng \in {-12020000, 16, 18000000}}

\* The reference encoding of a value v >= 0: chunks of 5 bits, lowest first,
\* each but the last with 0x20 added, each with 63 added.
RECURSIVE EncodeValue(_)
EncodeValue(v) ==
    IF v >= 32
    THEN <<Alphabet[(32 + (v % 32)) + 1]>> \o EncodeValue(v \div 32)
    ELSE <<Alphabet[v + 1]>>

\* The reference encoding of a signed delta: shifted left by one, inverted
\* when negative.
EncodeSigned(delta) ==
    EncodeValue(IF delta < 0 THEN ((-2) * delta) - 1 ELSE 2 * delta)

\* The reference encoding of a point sequence after the point (lat, lng).
RECURSIVE EncodeFrom(_, _, _)
EncodeFrom(points, lat, lng) ==
    IF points = <<>>
    THEN <<>>
    ELSE EncodeSigned(Head(points).lat - lat)
             \o EncodeSigned(Head(points).lng - lng)
             \o EncodeFrom(Tail(points), Head(points).lat, Head(points).lng)

Encode(points) == EncodeFrom(points, 0, 0)

\* The reference string "_p~iF~ps|U_ulLnnqC_mqNvxq`@" and its points.
ReferenceString ==
    <<"_", "p", "~", "i", "F", "~", "p", "s", "|", "U", "_", "u", "l", "L",
      "n", "n", "q", "C", "_", "m", "q", "N", "v", "x", "q", Grave, "@">>

ReferencePoints ==
    <<[lat |-> 3850000, lng |-> -12020000],
      [lat |-> 4070000, lng |-> -12095000],
      [lat |-> 4325200, lng |-> -12645300]>>

(***************************************************************************)
(* Inputs                                                                  *)
(***************************************************************************)
GoodOrigin == Marker(51, 4)
GoodDestination == Marker(52, 5)

\* Origins and destinations: complete, one coordinate missing, one zero.
Origins == {GoodOrigin, [longitude |-> 4], [latitude |-> 51], Marker(0, 4)}
Destinations ==
    {GoodDestination, [longitude |-> 5], [latitude |-> 52], Marker(52, 0)}

\* Props without the optional waypoints and apikey.
BaseProps(o, d, split, opt) ==
    [origin |-> o, destination |-> d,
     splitWaypoints |-> split, optimizeWaypoints |-> opt]

\* Props that pass the guard, with the waypoints prop absent (n = -1) or a
\* list of n waypoints.
GoodProps(n, split, opt) ==
    LET base == BaseProps(GoodOrigin, GoodDestination, split, opt)
                    @@ [apikey |-> "KEY"]
    IN  IF n < 0 THEN base ELSE base @@ [waypoints |-> WaypointList(n)]

\* The shortest waypoint list that splits into c chunks (c >= 2).
ShortestOfChunks(c) == (c - 1) * WAYPOINT_LIMIT + 1

\* Renders of Spec (overlapping runs): no waypoints, or two chunks' worth
\* sent whole or split.
OverlapProps ==
    {GoodProps(-1, FALSE, FALSE)}
        \cup {GoodProps(ShortestOfChunks(2), split, FALSE) : split \in BOOLEAN}

\* Renders of SpecLive: no waypoints, or two chunks' worth split.
LiveProps ==
    {GoodProps(-1, FALSE, FALSE), GoodProps(ShortestOfChunks(2), TRUE, FALSE)}

\* Renders of SpecJoin (one run): up to MaxChunks chunks' worth.
JoinProps ==
    {GoodProps(n, split, opt) :
        n \in {-1, 0} \cup {ShortestOfChunks(c) : c \in 2..MaxChunks},
        split \in BOOLEAN, opt \in BOOLEAN}

\* Renders of SpecGuard: every combination of origin, destination and key
\* (absent, empty, present).
GuardProps ==
    LET base(o, d) == BaseProps(o, d, FALSE, FALSE)
    IN  {base(o, d) : o \in Origins, d \in Destinations}
        \cup {base(o, d) @@ [apikey |-> k] :
                o \in Origins, d \in Destinations, k \in {"", "KEY"}}

\* Renders of SpecChunk: every list length up to MaxWaypoints.
ChunkProps ==
    {GoodProps(n, split, opt) :
        n \in -1..MaxWaypoints, split \in BOOLEAN, opt \in BOOLEAN}

\* Alternative j (0-based) of a response: one or two legs of whole
\* kilometres and minutes, some with duration_in_traffic, two steps per leg,
\* a fare on the even ones; no two alternatives agree in any metric.
AlternativeLeg(j, m) ==
    LET plain == [distance |-> [value |-> 1000 * (j + m)],
                  duration |-> [value |-> 60 * (j + m)],
                  steps    |-> <<[polyline |-> [points |-> <<Alphabet[j + 2], "?">>]],
                                 [polyline |-> [points |-> <<"?", Alphabet[m + 1]>>]]>>]
    IN  IF (j + m) % 2 = 0
        THEN plain @@ [duration_in_traffic |-> [value |-> 120 * (j + m)]]
        ELSE plain

Alternative(j) ==
    LET plain == [legs |-> [m \in 1..(1 + (j % 2)) |-> AlternativeLeg(j, m)],
                  overview_polyline |-> [points |-> <<Alphabet[j + 2], "A">>],
                  waypoint_order |-> [k \in 1..j |-> j - k]]
    IN  IF j % 2 = 0 THEN plain @@ [fare |-> [value |-> 3 + j]] ELSE plain

\* The JSON documents of SpecFetch: status absent, empty, an error or 'OK';
\* error_message absent, empty or a text; up to MaxAlternatives routes.
JsonDocuments ==
    LET routes(k) == [routes |-> [j \in 1..k |-> Alternative(j - 1)]]
        statuses  == {<<>>} \cup {[status |-> st] : st \in {"", "NOT_FOUND", "OK"}}
        messages  == {<<>>} \cup {[error_message |-> e] :
                                    e \in {"", "The provided API key is invalid."}}
    IN  {routes(k) @@ st @@ e :
            k \in 0..MaxAlternatives, st \in statuses, e \in messages}

\* The responses of SpecFetch: the two transport failures and the documents.
Responses ==
    {[kind |-> "network"], [kind |-> "nonjson"]}
        \cup {[kind |-> "json", json |-> j] : j \in JsonDocuments}

\* The filterRoute prop: absent, or a policy held as the index it returns.
FilterRoutes == {Null} \cup {Some(j) : j \in 0..MaxAlternatives}

\* The precision prop.
Precisions == {"low", "high"}

\* A record of the argument of decode.
Step(encoded) == [polyline |-> [points |-> encoded]]

\* The strings over chars of length up to n.
Strings(chars, n) == UNION {[1..k -> chars] : k \in 0..n}

\* Characters of free strings: chunks without and with a continuation, and
\* characters outside the alphabet.
FreeChars == {"?", "@", "_", "~", Space, Del}

\* Characters of the strings of free two-record arguments.
PairChars == {"@", "_"}

\* A run of continuing chunks long enough for the shift count to pass 32.
LongRun == <<"~", "~", "~", "~", "~", "~", "~", "@", "?">>

\* Arguments of decode that are no encoding of anything: free strings,
\* pairs of free strings, the long run.
FreeInputs ==
    {[t |-> <<Step(e)>>, plain |-> Null] :
        e \in Strings(FreeChars, MaxLen) \cup {LongRun}}
        \cup {[t |-> <<Step(a), Step(b)>>, plain |-> Null] :
                a \in Strings(PairChars, MaxLen), b \in Strings(PairChars, MaxLen)}

\* Arguments of decode with the point sequence they are the encoding of, if
\* it is one sequence: encodings of point sequences, pairs of encodings,
\* the reference string.
EncodedInputs ==
    {[t |-> <<Step(Encode(ps))>>, plain |-> Some(ps)] :
        ps \in Strings(SamplePoints, MaxPoints)}
        \cup {[t |-> <<Step(Encode(<<p>>)), Step(Encode(<<q>>))>>, plain |-> Null] :
                p \in SamplePoints, q \in SamplePoints}
        \cup {[t |-> <<Step(ReferenceString)>>, plain |-> Some(ReferencePoints)]}

\* The arguments of decode in SpecDecode.
DecodeInputs == FreeInputs \cup EncodedInputs

(***************************************************************************)
(* Actions                                                                 *)
(***************************************************************************)
ReactState == [coordinates |-> coordinates, distance |-> distance,
               duration |-> duration]

\* A render may start a run only while fewer than MaxRuns have started.
WithinRuns(p) == (EffectGuard(p) /\ FetchGuard(p)) => Len(runs) < MaxRuns

InitWith(inputs) ==
    /\ mounted = FALSE
    /\ props \in inputs
    /\ coordinates = Null
    /\ distance = Null
    /\ duration = Null
    /\ runs = <<>>
    /\ decoder = Null
    /\ fetcher = Null

\* The first render: the effect always runs after it.
Mount ==
    /\ ~mounted
    /\ mounted' = TRUE
    /\ Effect(props)
    /\ UNCHANGED <<props, coordinates, distance, duration, decoder, fetcher>>

\* A later render with new props: a dependency changed, the effect runs.
Update(p) ==
    /\ mounted
    /\ WithinRuns(p)
    /\ props' = p
    /\ Effect(p)
    /\ UNCHANGED <<mounted, coordinates, distance, duration, decoder, fetcher>>

\* The fetchRoute promise of routes[index] of run r settles as outcome; the
\* promise reactions that this makes ready run in the same turn.
Settle(r, index, outcome, onReadyRaises) ==
    /\ At(runs[r].fetches, index).state = "pending"
    /\ \E settled \in {[runs[r] EXCEPT !.fetches[index + 1] = outcome,
                                      !.order = Append(@, index)]} :
       \E join \in {IF runs[r].join = "pending"
                    THEN PromiseAll(settled, index)
                    ELSE [state |-> "pending"]} :
       \E done \in {Reactions(join, ReactState, onReadyRaises)} :
           /\ runs' = [runs EXCEPT ![r] =
                         [settled EXCEPT !.join  = IF runs[r].join = "pending"
                                                   THEN join.state ELSE @,
                                         !.trace = @ \o done.events]]
           /\ coordinates' = done.st.coordinates
           /\ distance' = done.st.distance
           /\ duration' = done.st.duration
    /\ UNCHANGED <<mounted, props, decoder, fetcher>>

\* Some pending fetchRoute promise settles; quotesFares says whether the
\* provider may quote a fare.
SettleSome(quotesFares) ==
    \E r \in 1..Len(runs) :
        \E index \in 0..(Len(runs[r].routes) - 1) :
            LET route == At(runs[r].routes, index)
                fares == IF quotesFares THEN Fares(route) ELSE {Null}
            IN  \E outcome \in FetchOutcomes(route, index, fares) :
                    \E onReadyRaises \in BOOLEAN :
                        Settle(r, index, outcome, onReadyRaises)

\* fetchAndRenderRoute of a render with one route calls fetchRoute; the
\* response it will get and the filterRoute and precision props of the
\* render are fixed here.
CallFetchRoute(response, filterRoute, precision) ==
    /\ fetcher = Null
    /\ fetcher' = [response |-> response, filterRoute |-> filterRoute,
                   precision |-> precision, outcome |-> Pending,
                   inner |-> Pending, filterCalls |-> <<>>, trace |-> <<>>]
    /\ UNCHANGED <<mounted, props, coordinates, distance, duration, runs,
                   decoder>>

\* The response arrives: the promise of fetchRoute settles, and with it the
\* Promise.all of the one route, whose then() or catch() runs.
SettleFetchRoute ==
    /\ fetcher # Null
    /\ fetcher.outcome = Pending
    /\ LET f    == FetchRoute(fetcher.response, fetcher.filterRoute,
                              fetcher.precision)
           join == IF f.outcome.state = "resolved"
                   THEN [state |-> "fulfilled", values |-> <<f.outcome.value>>]
                   ELSE [state |-> "rejected", reason |-> f.outcome.reason]
           done == Reactions(join, ReactState, FALSE)
       IN  /\ fetcher' = [fetcher EXCEPT !.outcome = f.outcome,
                                         !.inner = f.inner,
                                         !.filterCalls = f.filterCalls,
                                         !.trace = done.events]
           /\ coordinates' = done.st.coordinates
           /\ distance' = done.st.distance
           /\ duration' = done.st.duration
    /\ UNCHANGED <<mounted, props, runs, decoder>>

\* decode(t) is called; plain is kept beside the call.
CallDecode(input) ==
    /\ decoder = Null
    /\ decoder' = DecoderStart(input.t) @@ [plain |-> input.plain]
    /\ UNCHANGED <<mounted, props, coordinates, distance, duration, runs,
                   fetcher>>

\* One pass through a do-while loop of decode.
DecodeStep ==
    /\ decoder # Null
    /\ decoder.pc # "done"
    /\ decoder' = DecodeChar(decoder)
    /\ UNCHANGED <<mounted, props, coordinates, distance, duration, runs,
                   fetcher>>

\* Some pending fetchRoute promise settles, resolved without a fare or
\* rejected by a failure of the transport; onReady returns.
SettlePlainly ==
    \E r \in 1..Len(runs) :
        \E index \in 0..(Len(runs[r].routes) - 1) :
            \E outcome \in
                {Resolved(SegmentResult(At(runs[r].routes, index), Null)),
                 Rejected(RouteRejection(index, [kind |-> "network"]))} :
                Settle(r, index, outcome, FALSE)

(***************************************************************************)
(* Specifications                                                          *)
(***************************************************************************)
\* Renders that all pass the guard, runs that may overlap; the provider
\* quotes no fares.
Init == InitWith(OverlapProps)
Next ==
    \/ Mount
    \/ \E p \in OverlapProps : Update(p)
    \/ SettleSome(FALSE)
Spec == Init /\ [][Next]_vars

\* Runs of one and of two segments that may overlap, every fetch that is in
\* flight settling in the end.
InitLive == InitWith(LiveProps)
NextLive ==
    \/ Mount
    \/ \E p \in LiveProps : Update(p)
    \/ SettlePlainly
SpecLive == InitLive /\ [][NextLive]_vars /\ WF_vars(SettlePlainly)

\* One render and its run, with up to MaxChunks segments.
InitJoin == InitWith(JoinProps)
NextJoin ==
    \/ Mount
    \/ SettleSome(TRUE)
SpecJoin == InitJoin /\ [][NextJoin]_vars

\* Renders with complete and incomplete props; no fetch settles.
InitGuard == InitWith(GuardProps)
NextGuard ==
    \/ Mount
    \/ \E p \in GuardProps : Update(p)
SpecGuard == InitGuard /\ [][NextGuard]_vars

\* The synchronous part of fetchAndRenderRoute on every list length.
InitChunk == InitWith(ChunkProps)
NextChunk == Mount
SpecChunk == InitChunk /\ [][NextChunk]_vars

\* One call of fetchRoute on every response, policy and precision.
InitFetch == InitWith({GoodProps(-1, FALSE, FALSE)})
NextFetch ==
    \/ \E response \in Responses :
        \E filterRoute \in FilterRoutes :
            \E precision \in Precisions :
                CallFetchRoute(response, filterRoute, precision)
    \/ SettleFetchRoute
SpecFetch == InitFetch /\ [][NextFetch]_vars

\* One call of decode, step by step.
InitDecode == InitWith({GoodProps(-1, FALSE, FALSE)})
NextDecode ==
    \/ \E input \in DecodeInputs : CallDecode(input)
    \/ DecodeStep
SpecDecode == InitDecode /\ [][NextDecode]_vars

\* One call of decode on a free argument or the reference string, the loop
\* always taking its next step.
InitDecodeLive == InitWith({GoodProps(-1, FALSE, FALSE)})
NextDecodeLive ==
    \/ \E input \in FreeInputs : CallDecode(input)
    \/ CallDecode([t |-> <<Step(ReferenceString)>>, plain |-> Null])
    \/ DecodeStep
SpecDecodeLive ==
    InitDecodeLive /\ [][NextDecodeLive]_vars /\ WF_vars(DecodeStep)

(***************************************************************************)
(* Vocabulary of the properties                                            *)
(***************************************************************************)
EventsOf(run, type) == SelectSeq(run.trace, LAMBDA e : e.type = type)
Calls(run, type) == Len(EventsOf(run, type))

Segments(run) == 1..Len(run.routes)
HasFailed(run) == \E k \in Segments(run) : run.fetches[k].state = "rejected"
AllResolved(run) == \A k \in Segments(run) : run.fetches[k].state = "resolved"
AllSettled(run) == \A k \in Segments(run) : run.fetches[k].state # "pending"

\* The index (0-based) of the fetch that was rejected first in time.
FirstFailed(run) ==
    LET at == {k \in 1..Len(run.order) :
                 At(run.fetches, run.order[k]).state = "rejected"}
    IN  run.order[CHOOSE k \in at : \A j \in at : k <= j]

WaypointsProp(p) == IF HasWaypoints(p) THEN p.waypoints ELSE <<>>
CeilDiv(n, d) == (n + d - 1) \div d
Last(seq) == seq[Len(seq)]

(***************************************************************************)
(* Properties                                                              *)
(***************************************************************************)

\* C1: stale-result suppression.  Once a newer run has started, a step
\* never adds an event (setCoordinates, resetState, onReady, onError) to
\* the trace of an older run.
StaleResultSuppression ==
    [][\A r \in 1..Len(runs) :
          r < Len(runs) => runs'[r].trace = runs[r].trace]_vars

\* C2: all-or-nothing join.  A run with a failed fetch has called neither
\* onReady nor setCoordinates, and has called onError exactly once; and the
\* step in which a run's first fetch fails leaves coordinates null.
AllOrNothingJoin ==
    /\ [](\A r \in 1..Len(runs) :
            HasFailed(runs[r]) =>
                /\ Calls(runs[r], "onReady") = 0
                /\ Calls(runs[r], "setCoordinates") = 0
                /\ Calls(runs[r], "onError") = 1)
    /\ [][\A r \in 1..Len(runs) :
            (~HasFailed(runs[r]) /\ HasFailed(runs'[r])) =>
                coordinates' = Null]_vars

\* C2 witness: the first run displayed its path, the second run had one
\* segment succeed and one fail, and the path is gone.
AllOrNothingJoinWitness ==
    /\ Len(runs) = 2
    /\ runs[1].join = "fulfilled"
    /\ Calls(runs[1], "onError") = 0
    /\ Len(runs[2].routes) = 2
    /\ runs[2].fetches[1].state = "resolved"
    /\ runs[2].fetches[2].state = "rejected"
    /\ Calls(runs[2], "onError") = 1
    /\ coordinates = Null

\* C3: chunk coverage.  A list of n waypoints yields ceil(n / WAYPOINT_LIMIT)
\* routes when splitWaypoints is set and n > WAYPOINT_LIMIT, and one route
\* otherwise; the routes' waypoints, concatenated in order, are the list.
ChunkCoverage ==
    \A r \in 1..Len(runs) :
        LET p  == runs[r].props
            ws == WaypointsProp(p)
            n  == Len(ws)
            rs == runs[r].routes
        IN  /\ Len(rs) = IF p.splitWaypoints /\ n > WAYPOINT_LIMIT
                         THEN CeilDiv(n, WAYPOINT_LIMIT)
                         ELSE 1
            /\ Concat([k \in 1..Len(rs) |-> rs[k].waypoints]) = ws

\* C3 witness: a split list whose last chunk is shorter than the others.
ChunkCoverageWitness ==
    /\ Len(runs) = 1
    /\ runs[1].props.splitWaypoints
    /\ Len(runs[1].routes) = 3
    /\ Len(runs[1].routes[3].waypoints) = 5

\* C4 as claimed: every route of every run has at most WAYPOINT_LIMIT
\* waypoints, whatever splitWaypoints is.
WaypointLimitAlways ==
    \A r \in 1..Len(runs) :
        \A k \in Segments(runs[r]) :
            Len(runs[r].routes[k].waypoints) <= WAYPOINT_LIMIT

\* C4 as amended: with splitWaypoints set every route has at most
\* WAYPOINT_LIMIT waypoints; without it the one route carries the whole
\* list, however long.
WaypointLimitWhenSplit ==
    \A r \in 1..Len(runs) :
        LET p  == runs[r].props
            rs == runs[r].routes
        IN  IF p.splitWaypoints
            THEN \A k \in 1..Len(rs) : Len(rs[k].waypoints) <= WAYPOINT_LIMIT
            ELSE Len(rs) = 1 /\ rs[1].waypoints = WaypointsProp(p)

\* C4 witness: a split run with full chunks.
WaypointLimitWitness ==
    /\ Len(runs) = 1
    /\ runs[1].props.splitWaypoints
    /\ Len(runs[1].routes) = 3
    /\ Len(runs[1].routes[1].waypoints) = WAYPOINT_LIMIT
    /\ Len(runs[1].routes[3].waypoints) = WAYPOINT_LIMIT

\* C5: chunk boundaries.  In a split run every chunk is non-empty, the
\* first route starts at the origin, the last ends at the destination, a
\* later route starts at the last waypoint of the chunk before it and an
\* earlier route ends at the first waypoint of the chunk after it.
ChunkBoundaries ==
    \A r \in 1..Len(runs) :
        LET p  == runs[r].props
            ws == WaypointsProp(p)
            rs == runs[r].routes
            n  == Len(rs)
        IN  (p.splitWaypoints /\ Len(ws) > WAYPOINT_LIMIT) =>
                /\ \A i \in 1..n : Len(rs[i].waypoints) >= 1
                /\ rs[1].origin = p.origin
                /\ rs[n].destination = p.destination
                /\ \A i \in 2..n :
                      /\ rs[i].origin = Last(rs[i - 1].waypoints)
                      /\ rs[i].origin = ws[(i - 1) * WAYPOINT_LIMIT]
                /\ \A i \in 1..(n - 1) :
                      /\ rs[i].destination = rs[i + 1].waypoints[1]
                      /\ rs[i].destination = ws[i * WAYPOINT_LIMIT + 1]

\* C5 witness: a split run with a route that is neither first nor last.
ChunkBoundariesWitness ==
    /\ Len(runs) = 1
    /\ runs[1].props.splitWaypoints
    /\ Len(runs[1].routes) = 4
    /\ runs[1].routes[2].origin = runs[1].props.waypoints[WAYPOINT_LIMIT]
    /\ runs[1].routes[2].destination
          = runs[1].props.waypoints[2 * WAYPOINT_LIMIT + 1]

\* C6: order-independent aggregation.  A run whose fetches all resolved has
\* called onReady once, and the result onReady got is the fold of the
\* segment results in index order, whatever order they arrived in.
OrderIndependentAggregation ==
    \A r \in 1..Len(runs) :
        LET run    == runs[r]
            values == [k \in Segments(run) |-> run.fetches[k].value]
            ready  == EventsOf(run, "onReady")
        IN  /\ AllResolved(run) => Len(ready) = 1
            /\ \A e \in 1..Len(ready) :
                  /\ AllResolved(run)
                  /\ ready[e].result.coordinates
                        = Concat([k \in Segments(run) |-> values[k].coordinates])
                  /\ ready[e].result.fares
                        = [k \in Segments(run) |-> values[k].fare]
                  /\ ready[e].result.waypointOrder
                        = [k \in Segments(run) |-> values[k].waypointOrder]
                  /\ ready[e].result.distance = SumOver(values, "distance")
                  /\ ready[e].result.duration = SumOver(values, "duration")

\* C6 witness: three segments that resolved in reverse index order.
OrderIndependentAggregationWitness ==
    /\ Len(runs) = 1
    /\ runs[1].order = <<2, 1, 0>>
    /\ Calls(runs[1], "onReady") = 1

\* C7: first failure wins.  No run calls onError twice; a run with a failed
\* fetch has, already while other fetches are pending, called onError once
\* with the reason of the fetch that failed first in time, and its handlers
\* have done nothing else but resetState.
FirstFailureWins ==
    \A r \in 1..Len(runs) :
        LET run == runs[r]
        IN  /\ Calls(run, "onError") <= 1
            /\ HasFailed(run) =>
                  /\ EventsOf(run, "onError")
                        = <<[type  |-> "onError",
                             error |-> At(run.fetches, FirstFailed(run)).reason]>>
                  /\ Calls(run, "onReady") = 0
                  /\ Calls(run, "resetState") = 1
                  /\ Calls(run, "setCoordinates") = 0

\* C7 witness: segment 2 failed first, segment 0 failed later with another
\* reason, segment 1 resolved; onError got the reason of segment 2.
FirstFailureWinsWitness ==
    /\ Len(runs) = 1
    /\ runs[1].order = <<2, 0, 1>>
    /\ runs[1].fetches[3].state = "rejected"
    /\ runs[1].fetches[1].state = "rejected"
    /\ runs[1].fetches[3].reason # runs[1].fetches[1].reason
    /\ runs[1].fetches[2].state = "resolved"
    /\ EventsOf(runs[1], "onError")
          = <<[type |-> "onError", error |-> runs[1].fetches[3].reason]>>

\* C8: exactly one terminal observer.  A run whose fetches have all settled
\* has called exactly one of onReady and onError, once; onReady only if
\* every fetch resolved and onError only if some fetch failed, even when
\* onReady raises.
ExactlyOneTerminalObserver ==
    \A r \in 1..Len(runs) :
        LET run == runs[r]
        IN  AllSettled(run) =>
                /\ Calls(run, "onReady") + Calls(run, "onError") = 1
                /\ Calls(run, "onReady") >= 1 => AllResolved(run)
                /\ Calls(run, "onError") >= 1 => HasFailed(run)

\* A render's props lack the key or a coordinate of origin or destination.
MissingInput(p) ==
    \/ ~TruthyStr(p, "apikey")
    \/ "latitude" \notin DOMAIN p.origin
    \/ "longitude" \notin DOMAIN p.origin
    \/ "latitude" \notin DOMAIN p.destination
    \/ "longitude" \notin DOMAIN p.destination

\* C9: entry guard.  A render whose props lack the key or a coordinate of
\* origin or destination starts no run (no fetch, no onStart, onReady or
\* onError) and leaves coordinates, distance and duration as they were.
GuardNoOp ==
    [][MissingInput(props') =>
          UNCHANGED <<runs, coordinates, distance, duration>>]_vars

\* C9 witness: after a run was started, a render came whose origin has no
\* longitude; still one run.
GuardNoOpWitness ==
    /\ mounted
    /\ "longitude" \notin DOMAIN props.origin
    /\ TruthyStr(props, "apikey")
    /\ Len(runs) = 1

\* C10: start observer.  Every run calls onStart exactly once, before the
\* first fetch is dispatched, with the origin, destination and waypoints
\* strings of the request of route 0.
StartObserverFirst ==
    \A r \in 1..Len(runs) :
        LET run == runs[r]
            t   == run.trace
        IN  /\ Calls(run, "onStart") = 1
            /\ Calls(run, "fetch") = Len(run.routes)
            /\ t[1].type = "onStart"
            /\ t[2].type = "fetch"
            /\ t[2].index = 0
            /\ t[1].origin = t[2].origin
            /\ t[1].destination = t[2].destination
            /\ t[1].waypoints = t[2].waypoints
            /\ t[1].origin = CoordString(run.props.origin)

\* C10 witness: a run of several routes whose trace starts with onStart.
StartObserverFirstWitness ==
    /\ Len(runs) = 1
    /\ Len(runs[1].routes) = 3
    /\ runs[1].trace[1].type = "onStart"
    /\ runs[1].trace[1].destination
          = CoordString(runs[1].props.waypoints[WAYPOINT_LIMIT + 1])

(***************************************************************************)
(* Properties of fetchRoute                                                *)
(***************************************************************************)
FetchSettled == fetcher # Null /\ fetcher.outcome # Pending
FetchedJson == FetchSettled /\ fetcher.response.kind = "json"

StatusOk(json) == "status" \in DOMAIN json /\ json.status = "OK"

\* The argument of the one call of onError of the fetch.
OnErrorArgument ==
    LET calls == SelectSeq(fetcher.trace, LAMBDA e : e.type = "onError")
    IN  calls[1].error

\* The provider's message for a failed status, as the claim words it.
ProviderMessage(json) ==
    IF "error_message" \in DOMAIN json /\ json.error_message # ""
    THEN json.error_message
    ELSE IF "status" \in DOMAIN json /\ json.status # ""
    THEN json.status
    ELSE "Unknown error"

\* The policy is absent or returns the index of a route of the response.
PolicyInRange(f) ==
    f.filterRoute = Null \/ f.filterRoute[1] < Len(f.response.json.routes)

\* C11: a fetch fails whenever the status is not 'OK' or the response has no
\* routes, and resolves when the status is 'OK' with at least one route; on
\* a status other than 'OK' onError is handed the provider's error_message,
\* else the status, else 'Unknown error'; a response without routes fails
\* with an error of its own that names the reason.
OutcomeClassification ==
    FetchedJson =>
        LET json == fetcher.response.json
        IN  /\ (~StatusOk(json) \/ Len(json.routes) = 0)
                   => fetcher.outcome.state = "rejected"
            /\ (StatusOk(json) /\ Len(json.routes) # 0 /\ PolicyInRange(fetcher))
                   => fetcher.outcome.state = "resolved"
            /\ ~StatusOk(json) => OnErrorArgument = ProviderMessage(json)
            /\ (StatusOk(json) /\ Len(json.routes) = 0)
                   => /\ fetcher.inner.reason # Null
                      /\ \A other \in JsonDocuments :
                           ~StatusOk(other) =>
                               OnErrorArgument #
                                   FetchRoute([kind |-> "json", json |-> other],
                                              Null, "low").outcome.reason

(***************************************************************************)
(* Properties of the errors of a run with several routes                   *)
(***************************************************************************)
\* The error a run reported to onError.
ReportedError(run) == EventsOf(run, "onError")[1].error

\* The run reported the failure of the transport of a route.
ReportedTransportFailure(run) ==
    /\ Calls(run, "onError") = 1
    /\ HasFailed(run)
    /\ At(run.fetches, FirstFailed(run)).reason
           = RouteRejection(FirstFailed(run), [kind |-> "network"])
    /\ ReportedError(run) = At(run.fetches, FirstFailed(run)).reason

\* C12: when the transport of segment i fails in a run of several segments,
\* the error handed to onError identifies segment i: it differs from the
\* error the same failure of any other segment of the run produces.
TransportFailureNamesSegment ==
    \A r \in 1..Len(runs) :
        (Len(runs[r].routes) >= 2 /\ ReportedTransportFailure(runs[r])) =>
            \A j \in 0..(Len(runs[r].routes) - 1) :
                j # FirstFailed(runs[r]) =>
                    ReportedError(runs[r])
                        # RouteRejection(j, [kind |-> "network"])

(***************************************************************************)
(* Properties of the route selection                                       *)
(***************************************************************************)
\* The fetch got an 'OK' response with at least one route.
FetchedRoutes ==
    /\ FetchedJson
    /\ StatusOk(fetcher.response.json)
    /\ Len(fetcher.response.json.routes) >= 1

\* The metrics of a route of the response, as the claim lists them.
Metrics(route, precision) ==
    [distance      |-> LegsDistance(route.legs),
     duration      |-> LegsDuration(route.legs),
     coordinates   |-> RouteCoordinates(route, precision),
     fare          |-> Optional(route, "fare"),
     waypointOrder |-> route.waypoint_order,
     legs          |-> route.legs]

\* C13: with a policy and a successful response of k >= 1 alternatives the
\* policy is called exactly once, with k metric records in the provider's
\* order, record j computed from alternative j; if it returns j in 0..k-1
\* the result of the fetch is the metrics of alternative j; without a policy
\* the result is the metrics of alternative 0.
RouteSelection ==
    FetchedRoutes =>
        LET routes    == fetcher.response.json.routes
            k         == Len(routes)
            precision == fetcher.precision
        IN  IF fetcher.filterRoute = Null
            THEN /\ fetcher.filterCalls = <<>>
                 /\ fetcher.outcome = Resolved(Metrics(routes[1], precision))
            ELSE LET j == fetcher.filterRoute[1]
                 IN  /\ Len(fetcher.filterCalls) = 1
                     /\ Len(fetcher.filterCalls[1]) = k
                     /\ \A i \in 1..k :
                          fetcher.filterCalls[1][i] = Metrics(routes[i], precision)
                     /\ j < k =>
                          /\ fetcher.outcome = Resolved(Metrics(At(routes, j), precision))
                          /\ fetcher.outcome.value = At(fetcher.filterCalls[1], j)

\* A policy chose the last of several alternatives and the fetch resolved.
RouteSelectionWitness ==
    /\ FetchedRoutes
    /\ fetcher.filterRoute # Null
    /\ Len(fetcher.response.json.routes) >= 2
    /\ fetcher.filterRoute[1] = Len(fetcher.response.json.routes) - 1
    /\ fetcher.outcome.state = "resolved"
    /\ fetcher.outcome.value.coordinates
           # Metrics(fetcher.response.json.routes[1], fetcher.precision).coordinates

(***************************************************************************)
(* Properties of decode                                                    *)
(***************************************************************************)
DecodeDone == decoder # Null /\ decoder.pc = "done"

\* A point of the reference sequences as decode returns it.
Degrees(p) == [latitude |-> Div1E5(p.lat), longitude |-> Div1E5(p.lng)]

\* C14: decode of the standard encoding of a sequence of points whose
\* coordinates are multiples of 1e-5 degrees returns that sequence, and the
\* reference string decodes to (38.5, -120.2), (40.7, -120.95),
\* (43.252, -126.453).
CodecRoundTrip ==
    (DecodeDone /\ decoder.plain # Null) =>
        decoder.points = [k \in 1..Len(decoder.plain[1]) |->
                            Degrees(decoder.plain[1][k])]

\* The reference string has been decoded.
CodecRoundTripWitness ==
    /\ DecodeDone
    /\ decoder.t = <<Step(ReferenceString)>>
    /\ decoder.plain = Some(ReferencePoints)
    /\ Len(decoder.points) = Len(ReferencePoints)

\* C15: decode([A, B]) is decode([A]) followed by decode([B]); the running
\* totals start from zero in every record.
CodecConcatenation ==
    (DecodeDone /\ Len(decoder.t) = 2) =>
        decoder.points
            = Decode(<<decoder.t[1]>>) \o Decode(<<decoder.t[2]>>)

\* Two records that both yield points away from zero have been decoded.
CodecConcatenationWitness ==
    /\ DecodeDone
    /\ Len(decoder.t) = 2
    /\ \E k \in 1..Len(Decode(<<decoder.t[1]>>)) :
          Decode(<<decoder.t[1]>>)[k].latitude.num # 0
    /\ \E k \in 1..Len(Decode(<<decoder.t[2]>>)) :
          Decode(<<decoder.t[2]>>)[k].longitude.num # 0

\* A step of decode has been taken from a state inside a loop.
DecodeStepTaken ==
    /\ decoder # Null
    /\ decoder.pc # "done"
    /\ decoder' # decoder

\* The string of the record being decoded, and the chunk at the read index.
Encoded == decoder.t[decoder.step].polyline.points
AtEnd == decoder.index >= Len(Encoded)
ChunkRead == CharCodeAt(At(Encoded, decoder.index)) - 63

\* The step stays in the loop it was in.
StaysInLoop ==
    /\ decoder'.pc = decoder.pc
    /\ decoder'.step = decoder.step

\* What every step does, given whether the chunk read continues the run:
\* the read index goes up by one, the loop goes on exactly on a continuing
\* chunk, the longitude loop follows the latitude loop, and the end of the
\* longitude loop emits one point.
StepShape(continuing) ==
    /\ decoder'.step = decoder.step => decoder'.index = decoder.index + 1
    /\ StaysInLoop <=> continuing
    /\ (decoder.pc = "lat" /\ ~StaysInLoop) =>
           (decoder'.pc = "lng" /\ decoder'.step = decoder.step)
    /\ Len(decoder'.points)
           = Len(decoder.points)
                 + (IF decoder.pc = "lng" /\ ~StaysInLoop THEN 1 ELSE 0)

\* Every call of decode reaches its return.
DecodeReturns == (decoder # Null) ~> DecodeDone

\* C20 as stated: decode returns on every finite input; the read index
\* strictly increases on every inner-loop step, each inner loop stops at
\* the first chunk with the continuation bit 0x20 clear or at the end of the
\* string, and each outer iteration emits exactly one point.
DecoderTerminationOnBit ==
    /\ [][DecodeStepTaken =>
            StepShape(~AtEnd /\ Bit(ChunkRead, 5) = 1)]_vars
    /\ DecodeReturns

\* C20 amended: the same with the loop condition of the code: each inner
\* loop stops at the first chunk below 0x20 or at the end of the string.
DecoderTermination ==
    /\ [][DecodeStepTaken => StepShape(~AtEnd /\ ChunkRead >= 32)]_vars
    /\ DecodeReturns

\* A string that ends after a latitude has been decoded to its point.
DecoderTerminationWitness ==
    /\ DecodeDone
    /\ decoder.t = <<Step(<<"_", "@">>)>>
    /\ Len(decoder.points) = 1
    /\ decoder.index = 3

(***************************************************************************)
(* Properties of the stitching, the observers and the request strings      *)
(***************************************************************************)
\* The pairs of consecutive elements of a sequence, in order.
Legs(stops) == [k \in 1..(Len(stops) - 1) |-> <<stops[k], stops[k + 1]>>]

\* The overall stop sequence of a render.
OverallStops(p) == <<p.origin>> \o WaypointsProp(p) \o <<p.destination>>

\* C16: in a split run the stop sequences of the segments, taken together,
\* traverse every pair of consecutive stops of the overall sequence exactly
\* once: no leg is counted twice and none is skipped.
StitchingCoversEachLegOnce ==
    \A r \in 1..Len(runs) :
        ShouldSplit(runs[r].props) =>
            Concat([k \in 1..Len(runs[r].routes) |->
                      Legs(Stops(runs[r].routes[k]))])
                = Legs(OverallStops(runs[r].props))

\* A run has reported to onReady or to onError.
Reported(run) == Calls(run, "onReady") + Calls(run, "onError") >= 1

\* A render with new props starts one more run.
StartsRun ==
    \E p \in LiveProps :
        Update(p) /\ Len(runs') = Len(runs) + 1

\* C17: when every fetch in flight settles in the end, every run that
\* passed the guard reports to onReady or onError in the end, and a new
\* trigger then starts a new run.
RunCompletion ==
    /\ \A r \in 1..MaxRuns :
         (Len(runs) >= r) ~> (Len(runs) >= r /\ Reported(runs[r]))
    /\ [](\A r \in 1..Len(runs) :
            (Reported(runs[r]) /\ Len(runs) < MaxRuns) => ENABLED StartsRun)

\* A run of two segments has reported a failure, and a later run its result.
RunCompletionWitness ==
    /\ Len(runs) = 2
    /\ Len(runs[1].routes) = 2
    /\ Calls(runs[1], "onError") = 1
    /\ Calls(runs[2], "onReady") = 1

\* C18: with optimizeWaypoints the waypoints string of every request, and
\* the one given to onStart, is 'optimize:true|' followed by the waypoints
\* of the segment, each as 'lat,lng', joined with '|'.
OptimizedWaypointString ==
    \A r \in 1..Len(runs) :
        runs[r].props.optimizeWaypoints =>
            /\ \A k \in Segments(runs[r]) :
                 EventsOf(runs[r], "fetch")[k].waypoints
                     = "optimize:true|"
                           \o PlainWaypointsString(runs[r].routes[k].waypoints)
            /\ EventsOf(runs[r], "onStart")[1].waypoints
                   = "optimize:true|"
                         \o PlainWaypointsString(runs[r].routes[1].waypoints)

\* The key is present and origin and destination have both coordinates.
CompleteInput(p) ==
    /\ TruthyStr(p, "apikey")
    /\ DOMAIN p.origin = {"latitude", "longitude"}
    /\ DOMAIN p.destination = {"latitude", "longitude"}

\* The render of props p has started the last run, whose onStart and first
\* request carry origin and destination as 'lat,lng'.
StartedWith(p, before, after) ==
    /\ Len(after) = Len(before) + 1
    /\ LET run == after[Len(after)]
       IN  /\ Calls(run, "onStart") = 1
           /\ Calls(run, "fetch") >= 1
           /\ EventsOf(run, "onStart")[1].origin = CoordString(p.origin)
           /\ EventsOf(run, "onStart")[1].destination = CoordString(p.destination)
           /\ EventsOf(run, "fetch")[1].origin = CoordString(p.origin)
           /\ EventsOf(run, "fetch")[1].destination = CoordString(p.destination)

\* C19: a render whose key is present and whose origin and destination have
\* a latitude and a longitude, 0 included, starts a run: onStart is called,
\* the fetches are dispatched, and the points are sent as 'lat,lng'.
GuardAdmitsComplete ==
    [][CompleteInput(props') => StartedWith(props', runs, runs')]_vars

====
